---- MODULE Spec2Model ----
(***************************************************************************)
(* Post-Earnings Drift Analyzer (src/main.py): one run of the Analyze      *)
(* handler, statement group by statement group.                            *)
(*                                                                         *)
(* Numbers.  Prices are non-negative integers.  A percentage is kept in    *)
(* hundredths of a percent, so round(x, 2) of 0.98 is the integer 98.      *)
(* The prices come out of a pandas DataFrame, so the arithmetic of lines   *)
(* 71 and 74 is numpy float64 arithmetic: a division by zero raises no     *)
(* exception, it yields inf, -inf or nan.  A value is therefore a record   *)
(* [k |-> "fin" | "inf" | "nan", v |-> Int].  Sums and products are exact  *)
(* (no binary rounding error is modelled).                                 *)
(*                                                                         *)
(* Time.  A timestamp is an integer number of ticks, TicksPerDay ticks to  *)
(* a day; a daily bar sits at midnight, an earnings event at any time of   *)
(* day; .date() drops the time of day.                                     *)
(***************************************************************************)
EXTENDS Integers, Sequences, FiniteSets, TLC

VARIABLES ticker_input, pc, earnings, hist, i, data, correlation,
          same_direction_pct, ui, calls, faulted

vars == <<ticker_input, pc, earnings, hist, i, data, correlation,
          same_direction_pct, ui, calls, faulted>>

----------------------------------------------------------------------------
(* Bounds of the model *)

MaxDay == 4

MaxEvents == 3

TimesOfDay == {0, 1}

TicksPerDay == Cardinality(TimesOfDay)

Days == 1 .. MaxDay

----------------------------------------------------------------------------
(* float64 values *)

Fin(n) == [k |-> "fin", v |-> n]

Inf(s) == [k |-> "inf", v |-> s]

NaN == [k |-> "nan", v |-> 0]

Sgn(n) == IF n > 0 THEN 1 ELSE IF n < 0 THEN -1 ELSE 0

Abs(n) == IF n < 0 THEN -n ELSE n

(* round-half-even of the rational n / d, d > 0 *)
RoundHalfEven(n, d) ==
  LET q == n \div d
      r == n - q * d
  IN  IF 2 * r < d THEN q
      ELSE IF 2 * r > d THEN q + 1
      ELSE IF q % 2 = 0 THEN q ELSE q + 1

(* round(x, 2) of x = n/d percent, as hundredths of a percent *)
Round2(n, d) == RoundHalfEven(n * 100, d)

(* round((num / den) * 100, 2) in float64 arithmetic: a zero divisor raises *)
(* nothing (only a RuntimeWarning), the quotient is inf, -inf or nan, and   *)
(* round() returns it unchanged                                             *)
PctChange(num, den) ==
  IF den = 0
    THEN IF num = 0 THEN NaN ELSE Inf(Sgn(num))
    ELSE Fin(Round2(num * 100, den))

GapPctOfClose(post_open, post_close, pre_close) ==
  PctChange(post_close - pre_close, pre_close)

GapPct(post_open, post_close, pre_close) ==
  PctChange(post_open - pre_close, pre_close)

IntradayPct(post_open, post_close) ==
  PctChange(post_close - post_open, post_open)

NotNa(x) == x.k # "nan"

(* x != 0 on a float64 column: nan != 0 is True *)
NonZero(x) == ~(x.k = "fin" /\ x.v = 0)

(* np.sign(a) == np.sign(b): sign(nan) is nan, and nan equals nothing *)
SignEq(a, b) ==
  /\ a.k # "nan"
  /\ b.k # "nan"
  /\ Sgn(a.v) = Sgn(b.v)

----------------------------------------------------------------------------
(* The data source (yfinance), an external collaborator: what it may      *)
(* answer for a ticker.  An earnings row is [t, eps]: its timestamp and    *)
(* whether 'Reported EPS' is present.  A bar is [t, Open, Close], t at     *)
(* midnight; a history is ordered by date with unique dates.               *)

Midnight(d) == d * TicksPerDay

EventTimes == { Midnight(d) + tod : d \in Days, tod \in TimesOfDay }

SeqsUpTo(S, n) == UNION { [1 .. k -> S] : k \in 0 .. n }

Ordered(s) ==
  \/ \A j \in 1 .. Len(s) - 1 : s[j].t > s[j + 1].t
  \/ \A j \in 1 .. Len(s) - 1 : s[j].t < s[j + 1].t

(* rows in date order, newest or oldest first, at any time of day, EPS *)
(* present or not                                                     *)
AnyRows ==
  { s \in SeqsUpTo([t : EventTimes, eps : BOOLEAN], MaxEvents) : Ordered(s) }

(* rows most recent first, all reported after the close *)
ReportedRows ==
  { s \in SeqsUpTo([t : { Midnight(d) + 1 : d \in Days }, eps : {TRUE}], MaxEvents) :
      \A j \in 1 .. Len(s) - 1 : s[j].t > s[j + 1].t }

MinOf(S) == CHOOSE m \in S : \A n \in S : m <= n

Bar(d, shape) == [t |-> Midnight(d), Open |-> shape[1], Close |-> shape[2]]

(* the bars of the scenario of the design document, continued past day 3 *)
ScenarioShape(d) ==
  CASE d = 1 -> <<100, 102>>
    [] d = 2 -> <<103, 101>>
    [] d = 3 -> <<99, 105>>
    [] OTHER -> <<100 + d, 99 + d>>

RECURSIVE BarsOn(_)
BarsOn(D) ==
  IF D = {} THEN <<>>
  ELSE LET m == MinOf(D) IN <<Bar(m, ScenarioShape(m))>> \o BarsOn(D \ {m})

(* trading days with holes, prices fixed by the day *)
ScenarioHistories == { BarsOn(D) : D \in SUBSET Days }

(* every day a trading day from day 1 on, (Open, Close) of each bar from shapes *)
ShapedHistories(shapes) ==
  { [j \in 1 .. Len(f) |-> Bar(j, f[j])] : f \in SeqsUpTo(shapes, MaxDay) }

DriftShapes == { <<100, 100>>, <<101, 100>>, <<102, 102>>, <<0, 0>> }

TightShapes == { <<30001, 30000>>, <<30006, 30012>> }

Typed == {"", "msft", "NVDA", "aapl"}

Upper(s) ==
  CASE s = "msft" -> "MSFT"
    [] s = "aapl" -> "AAPL"
    [] OTHER -> s

NoRows == [isNone |-> FALSE, rows |-> <<>>]

EarningsDates(t) ==
  { [isNone |-> TRUE, rows |-> <<>>], NoRows } \cup
  CASE t = "MSFT" -> { [isNone |-> FALSE, rows |-> r] : r \in AnyRows }
    [] t \in {"NVDA", "AAPL"} -> { [isNone |-> FALSE, rows |-> r] : r \in ReportedRows }
    [] OTHER -> {}

History(t) ==
  CASE t = "MSFT" -> ScenarioHistories
    [] t = "NVDA" -> ShapedHistories(DriftShapes)
    [] t = "AAPL" -> ShapedHistories(TightShapes)
    [] OTHER -> { <<>> }

----------------------------------------------------------------------------
(* The alignment loop body, lines 55-82 *)

Index(h) == [j \in 1 .. Len(h) |-> h[j].t]

Select(s, Test(_)) == SelectSeq(s, Test)

Range(s) == { s[j] : j \in 1 .. Len(s) }

PriorDatesStrict(h, ed) == Select(Index(h), LAMBDA t : t < ed)

(* hist.index[hist.index <= ed] *)
PriorDates(h, ed) == Select(Index(h), LAMBDA t : t <= ed)

(* hist.index[hist.index > ed] *)
NextDates(h, ed) == Select(Index(h), LAMBDA t : t > ed)

FirstOf(dates) == dates[1]

(* prior_dates[-1] *)
LastOf(dates) == dates[Len(dates)]

(* hist.loc[date]: the row labelled date (dates are unique) *)
Loc(h, date) == CHOOSE b \in { h[j] : j \in 1 .. Len(h) } : b.t = date

(* Timestamp.date() *)
Date(t) == t \div TicksPerDay

Row(h, ed) ==
  LET pre_date   == LastOf(PriorDates(h, ed))
      pre_close  == Loc(h, pre_date).Close
      next_date  == FirstOf(NextDates(h, ed))
      post_open  == Loc(h, next_date).Open
      post_close == Loc(h, next_date).Close
  IN  [ed       |-> Date(ed),
       pre      |-> Date(pre_date),
       post     |-> Date(next_date),
       gap      |-> GapPct(post_open, post_close, pre_close),
       intraday |-> IntradayPct(post_open, post_close)]

(* data.append({...}) *)
AppendRow(rows, row) == Append(rows, row)

AppendAlways(rows, h, ed) ==
  IF PriorDates(h, ed) = <<>> THEN rows
  ELSE IF NextDates(h, ed) = <<>>
    THEN AppendRow(rows, [ed |-> Date(ed), pre |-> Date(LastOf(PriorDates(h, ed))),
                          post |-> Date(ed), gap |-> NaN, intraday |-> NaN])
    ELSE AppendRow(rows, Row(h, ed))

(* one pass of the loop body for ed over the rows collected so far *)
Body(rows, h, ed) ==
  IF PriorDates(h, ed) = <<>> THEN rows
  ELSE IF NextDates(h, ed) = <<>> THEN rows
  ELSE AppendRow(rows, Row(h, ed))

----------------------------------------------------------------------------
(* The aggregates, lines 97-100 *)

RECURSIVE Sum(_)
Sum(s) == IF s = <<>> THEN 0 ELSE s[1] + Sum(Tail(s))

Map(s, F(_)) == [j \in 1 .. Len(s) |-> F(s[j])]

(* the pairs Series.corr keeps (a pair with a nan is dropped) and the sums *)
(* np.corrcoef forms over them                                            *)
Moments(rows) ==
  LET valid == Select(rows, LAMBDA r : NotNa(r.gap) /\ NotNa(r.intraday))
      n     == Len(valid)
      x     == Map(valid, LAMBDA r : r.gap.v)
      y     == Map(valid, LAMBDA r : r.intraday.v)
      xy    == Map(valid, LAMBDA r : r.gap.v * r.intraday.v)
      xx    == Map(valid, LAMBDA r : r.gap.v * r.gap.v)
      yy    == Map(valid, LAMBDA r : r.intraday.v * r.intraday.v)
  IN  [n   |-> n,
       inf |-> \E j \in 1 .. n : valid[j].gap.k = "inf" \/ valid[j].intraday.k = "inf",
       cov |-> n * Sum(xy) - Sum(x) * Sum(y),
       vx  |-> n * Sum(xx) - Sum(x) * Sum(x),
       vy  |-> n * Sum(yy) - Sum(y) * Sum(y)]

Undefined == [k |-> "nan", cov |-> 0, vx |-> 0, vy |-> 0]

CorrZeroWhenUndefined(rows) ==
  LET m == Moments(rows)
  IN  IF m.n < 1 \/ m.inf THEN Undefined
      ELSE IF m.n < 2 \/ m.vx = 0 \/ m.vy = 0
        THEN [k |-> "fin", cov |-> 0, vx |-> 1, vy |-> 1]
      ELSE [k |-> "fin", cov |-> m.cov, vx |-> m.vx, vy |-> m.vy]

(* df['Gap %'].corr(df['Intraday %']): the coefficient is                 *)
(* cov / sqrt(vx * vy), kept as the three integers; nan when no pair is    *)
(* left, when a value is infinite, when one pair is left (0/0) or when a   *)
(* variance is zero (0/0)                                                  *)
Corr(rows) ==
  LET m == Moments(rows)
  IN  IF m.n < 1 \/ m.inf THEN Undefined
      ELSE IF m.n < 2 \/ m.vx = 0 \/ m.vy = 0 THEN Undefined
      ELSE [k |-> "fin", cov |-> m.cov, vx |-> m.vx, vy |-> m.vy]

(* correlation > 0; any comparison with nan is False *)
Positive(c) == c.k = "fin" /\ c.cov > 0

NonZeroRows(rows) == Select(rows, LAMBDA r : NonZero(r.gap))

SameRows(rows) == Select(rows, LAMBDA r : SignEq(r.gap, r.intraday))

(* lines 98-100; a percentage is kept as the fraction num / den *)
SameDirectionPct(rows) ==
  IF NonZeroRows(rows) = <<>> THEN [num |-> 0, den |-> 1]
  ELSE [num |-> 100 * Len(SameRows(NonZeroRows(rows))), den |-> Len(NonZeroRows(rows))]

Above50(p) == p.num > 50 * p.den

----------------------------------------------------------------------------
(* What the page shows, and how an exception travels *)

Shown(kind, text) == [kind |-> kind, text |-> text]

Kinds(u) == { u[j].kind : j \in 1 .. Len(u) }

Count(u, kind) == Cardinality({ j \in 1 .. Len(u) : u[j].kind = kind })

(* `except Exception` (lines 83 and 135) catches the classes derived from    *)
(* Exception; st.stop() raises StopException, which derives from            *)
(* BaseException only                                                       *)
CaughtAll(cls) == TRUE

Caught(cls) == cls = "Exception"

TryOuterOnly(site) == "outer"

(* the innermost try around a statement: lines 54-82 are inside the loop's  *)
(* try, every statement of lines 24-133 is inside the outer one             *)
Try(site) == IF site = "loop" THEN "inner" ELSE "outer"

(* the page after cls(msg), raised at site, has propagated *)
PageAfter(u, cls, site, msg) ==
  IF ~Caught(cls) THEN u
  ELSE IF Try(site) = "inner" THEN u
  ELSE Append(u, Shown("error", msg))

(* where control is after cls, raised at site, has propagated: the next     *)
(* event, the end of the script, or out of the script ("escaped")           *)
ControlAfter(cls, site) ==
  IF ~Caught(cls) THEN IF cls = "StopException" THEN "done" ELSE "escaped"
  ELSE IF Try(site) = "inner" THEN "loop"
  ELSE "done"

Zero == [num |-> 0, den |-> 1]

Init ==
  /\ ticker_input = "MSFT"
  /\ pc = "idle"
  /\ earnings = <<>>
  /\ hist = <<>>
  /\ i = 0
  /\ data = <<>>
  /\ correlation = Undefined
  /\ same_direction_pct = Zero
  /\ ui = <<>>
  /\ calls = <<>>
  /\ faulted = {}

(* st.error(message); st.stop() *)
ErrorAndStop(message, site) ==
  /\ ui' = PageAfter(Append(ui, Shown("error", message)), "StopException", site, "")
  /\ pc' = ControlAfter("StopException", site)

(* lines 18-22: the text typed is upper-cased and the button starts the run *)
Analyze ==
  /\ pc = "idle"
  /\ \E typed \in Typed : ticker_input' = Upper(typed)
  /\ pc' = "earnings"
  /\ earnings' = <<>>
  /\ hist' = <<>>
  /\ i' = 0
  /\ data' = <<>>
  /\ correlation' = Undefined
  /\ same_direction_pct' = Zero
  /\ ui' = <<>>
  /\ calls' = <<>>
  /\ faulted' = {}

(* lines 25-31 *)
GetEarnings ==
  /\ pc = "earnings"
  /\ calls' = Append(calls, "earnings_dates")
  /\ \E r \in EarningsDates(ticker_input) :
       IF r.isNone \/ r.rows = <<>>
         THEN /\ ErrorAndStop("No earnings data available", "earnings")
              /\ UNCHANGED earnings
         ELSE /\ earnings' = r.rows
              /\ pc' = "filter"
              /\ UNCHANGED ui
  /\ UNCHANGED <<ticker_input, hist, i, data, correlation, same_direction_pct, faulted>>

(* earnings[earnings['Reported EPS'].notna()] *)
Reported(rows) == Select(rows, LAMBDA e : e.eps)

(* lines 34-37 *)
FilterEPS ==
  /\ pc = "filter"
  /\ earnings' = Reported(earnings)
  /\ IF earnings' = <<>>
       THEN ErrorAndStop("No past earnings with reported EPS", "filter")
       ELSE pc' = "history" /\ UNCHANGED ui
  /\ UNCHANGED <<ticker_input, hist, i, data, correlation, same_direction_pct, calls, faulted>>

(* lines 40-43 *)
GetHistory ==
  /\ pc = "history"
  /\ calls' = Append(calls, "history")
  /\ \E h \in History(ticker_input) :
       /\ hist' = h
       /\ IF h = <<>>
            THEN ErrorAndStop("No historical price data available", "history")
            ELSE pc' = "normalize" /\ UNCHANGED ui
  /\ UNCHANGED <<ticker_input, earnings, i, data, correlation, same_direction_pct, faulted>>

(* lines 46-50: tz_localize(None) keeps the wall-clock timestamps; data = [] *)
Normalize ==
  /\ pc = "normalize"
  /\ data' = <<>>
  /\ i' = 1
  /\ pc' = "loop"
  /\ UNCHANGED <<ticker_input, earnings, hist, correlation, same_direction_pct, ui, calls, faulted>>

(* lines 53-84, one event *)
LoopBody ==
  /\ pc = "loop"
  /\ i <= Len(earnings)
  /\ data' = Body(data, hist, earnings[i].t)
  /\ i' = i + 1
  /\ UNCHANGED <<ticker_input, pc, earnings, hist, correlation, same_direction_pct, ui, calls, faulted>>

(* lines 87-94 *)
BuildFrame ==
  /\ pc = "loop"
  /\ i > Len(earnings)
  /\ IF data = <<>>
       THEN ErrorAndStop("No sufficient data to analyze post-earnings drift", "frame")
       ELSE pc' = "aggregate" /\ UNCHANGED ui
  /\ UNCHANGED <<ticker_input, earnings, hist, i, data, correlation, same_direction_pct, calls, faulted>>

(* lines 97-100 *)
Aggregate ==
  /\ pc = "aggregate"
  /\ correlation' = Corr(data)
  /\ same_direction_pct' = SameDirectionPct(data)
  /\ pc' = "display"
  /\ UNCHANGED <<ticker_input, earnings, hist, i, data, ui, calls, faulted>>

InterpretationNonNegative(c) ==
  IF c.k = "fin" /\ c.cov >= 0 THEN "Positive correlation detected"
  ELSE "No positive correlation found"

(* lines 112-116 *)
Interpretation(c) ==
  IF Positive(c) THEN "Positive correlation detected"
  ELSE "No positive correlation found"

(* lines 121-129 *)
Strategy(c, p) ==
  IF Positive(c) /\ Above50(p) THEN "buy the positive gap"
  ELSE "No clear drift pattern detected"

(* f"{correlation:.2f}" *)
Format(c) == IF c.k = "nan" THEN "nan" ELSE "number"

(* lines 103-133, in the order rendered *)
Page(c, p) ==
  << Shown("subheader", "Results"),
     Shown("correlation", Format(c)),
     Shown("same_direction", "number"),
     Shown("interpretation", Interpretation(c)),
     Shown("strategy", Strategy(c, p)),
     Shown("table", "Detailed Data") >>

Display ==
  /\ pc = "display"
  /\ ui' = ui \o Page(correlation, same_direction_pct)
  /\ pc' = "done"
  /\ UNCHANGED <<ticker_input, earnings, hist, i, data, correlation, same_direction_pct, calls, faulted>>

Next ==
  \/ Analyze
  \/ GetEarnings
  \/ FilterEPS
  \/ GetHistory
  \/ Normalize
  \/ LoopBody
  \/ BuildFrame
  \/ Aggregate
  \/ Display

Spec == Init /\ [][Next]_vars

----------------------------------------------------------------------------
(* The same run when a statement may raise: Exception(msg) at any statement *)
(* of the handler.  faulted records where: <<"loop", i>> for the body of    *)
(* event i, <<site, 0>> elsewhere.                                          *)

Messages == {"timeout"}

Prefixes(s) == { SubSeq(s, 1, n) : n \in 0 .. Len(s) - 1 }

(* an exception in the body of event i: lines 83-84 *)
RaiseInLoop ==
  /\ pc = "loop"
  /\ i <= Len(earnings)
  /\ \E msg \in Messages :
       /\ ui' = PageAfter(ui, "Exception", "loop", msg)
       /\ pc' = ControlAfter("Exception", "loop")
  /\ i' = IF pc' = "loop" THEN i + 1 ELSE i
  /\ faulted' = faulted \cup {<<"loop", i>>}
  /\ UNCHANGED <<ticker_input, earnings, hist, data, correlation, same_direction_pct, calls>>

(* an exception in a fetch, the filter, the normalisation, the frame or the *)
(* aggregates: lines 135-136                                                *)
RaiseOutside ==
  /\ pc \in {"earnings", "filter", "history", "normalize", "aggregate"}
  /\ \E msg \in Messages :
       /\ ui' = PageAfter(ui, "Exception", pc, msg)
       /\ pc' = ControlAfter("Exception", pc)
  /\ calls' = CASE pc = "earnings" -> Append(calls, "earnings_dates")
                [] pc = "history" -> Append(calls, "history")
                [] OTHER -> calls
  /\ faulted' = faulted \cup {<<pc, 0>>}
  /\ UNCHANGED <<ticker_input, earnings, hist, i, data, correlation, same_direction_pct>>

(* an exception while the results are rendered: what precedes the failing  *)
(* element is on the page already                                          *)
RaiseInDisplay ==
  /\ pc = "display"
  /\ \E msg \in Messages, shown \in Prefixes(Page(correlation, same_direction_pct)) :
       /\ ui' = PageAfter(ui \o shown, "Exception", pc, msg)
       /\ pc' = ControlAfter("Exception", pc)
  /\ faulted' = faulted \cup {<<pc, 0>>}
  /\ UNCHANGED <<ticker_input, earnings, hist, i, data, correlation, same_direction_pct, calls>>

NextFault ==
  \/ Next
  \/ RaiseInLoop
  \/ RaiseOutside
  \/ RaiseInDisplay

SpecFault == Init /\ [][NextFault]_vars

----------------------------------------------------------------------------
(* Properties.  Stated over calendar dates and over the prices of the bars, *)
(* not over the operators of the loop body.                                 *)

Rows == { data[j] : j \in 1 .. Len(data) }

BarDates == { Date(hist[j].t) : j \in 1 .. Len(hist) }

BarOn(d) == CHOOSE b \in { hist[j] : j \in 1 .. Len(hist) } : Date(b.t) = d

(* the events the loop has been through *)
Processed == IF i = 0 THEN 0 ELSE i - 1

HasPriorBar(e) == \E d \in BarDates : d <= Date(e.t)

HasNextBar(e) == \E d \in BarDates : d > Date(e.t)

Straddled(e) == HasPriorBar(e) /\ HasNextBar(e)

EarningsDatesOf(rows) == [j \in 1 .. Len(rows) |-> rows[j].ed]

ResultKinds == {"subheader", "correlation", "same_direction", "interpretation",
                "strategy", "table"}

(* C1: every observation's preDate is the latest bar date <= its earnings   *)
(* date and its postDate the earliest bar date > it; so preDate <=          *)
(* earningsDate < postDate, the two differ, and an earnings date that is a  *)
(* bar date is its own preDate.                                             *)
AlignedAround ==
  \A r \in Rows :
    /\ r.pre \in BarDates
    /\ r.post \in BarDates
    /\ r.pre <= r.ed
    /\ r.ed < r.post
    /\ r.pre # r.post
    /\ \A d \in BarDates : d <= r.ed => d <= r.pre
    /\ \A d \in BarDates : d > r.ed => r.post <= d
    /\ r.ed \in BarDates => r.pre = r.ed

(* an event on a non-trading day, pulled back and forward over the holes;   *)
(* and one on a trading day, reported after the close                       *)
AlignedAroundReached ==
  /\ pc = "done"
  /\ \E r \in Rows : r.pre < r.ed /\ r.post > r.ed + 1
  /\ \E j \in 1 .. Len(data) : data[j].pre = data[j].ed
  /\ \E j \in 1 .. Len(earnings) : earnings[j].t % TicksPerDay # 0 /\ Straddled(earnings[j])

(* C2: the observations are exactly the events with reported EPS that have  *)
(* a bar dated <= them and a bar dated > them, one each, in the order       *)
(* iterated; an event with no prior or no subsequent bar adds nothing.      *)
OnePerStraddledEvent ==
  pc \in {"loop", "aggregate", "display", "done"} =>
    /\ \A j \in 1 .. Len(earnings) : earnings[j].eps
    /\ EarningsDatesOf(data) =
         [j \in 1 .. Len(Select(SubSeq(earnings, 1, Processed), Straddled)) |->
            Date(Select(SubSeq(earnings, 1, Processed), Straddled)[j].t)]

(* three events: the first skipped, the second kept, the third skipped, one *)
(* for want of a prior bar and one for want of a subsequent bar             *)
OnePerStraddledEventReached ==
  /\ pc = "done"
  /\ Len(earnings) = 3
  /\ Len(data) = 1
  /\ ~Straddled(earnings[1])
  /\ Straddled(earnings[2])
  /\ ~Straddled(earnings[3])
  /\ \E j \in {1, 3} : ~HasPriorBar(earnings[j])
  /\ \E j \in {1, 3} : ~HasNextBar(earnings[j])

(* C3: an event whose pre bar closes at 0 or whose post bar opens at 0      *)
(* produces no observation.                                                 *)
NoRowOnZeroPrice ==
  \A r \in Rows : BarOn(r.pre).Close # 0 /\ BarOn(r.post).Open # 0

(* C4: gapPct is (postOpen - preClose) / preClose * 100 and intradayPct is  *)
(* (postClose - postOpen) / postOpen * 100, to the nearest hundredth, on    *)
(* the close of the pre bar and the open and close of the post bar; the     *)
(* three-bar scenario with earnings on 1/1 gives pre 1/1, post 1/2, 0.98    *)
(* and -1.94.                                                               *)
Nearest(v, num, den) ==
  /\ v.k = "fin"
  /\ 2 * Abs(v.v * den - num * 10000) <= den

ScenarioBars == << Bar(1, <<100, 102>>), Bar(2, <<103, 101>>), Bar(3, <<99, 105>>) >>

ScenarioRun ==
  /\ pc = "done"
  /\ hist = ScenarioBars
  /\ Len(earnings) = 1
  /\ Date(earnings[1].t) = 1

PercentagesOfAlignedBars ==
  /\ \A r \in Rows :
       LET pre_close  == BarOn(r.pre).Close
           post_open  == BarOn(r.post).Open
           post_close == BarOn(r.post).Close
       IN  /\ pre_close # 0 => Nearest(r.gap, post_open - pre_close, pre_close)
           /\ post_open # 0 => Nearest(r.intraday, post_close - post_open, post_open)
  /\ ScenarioRun =>
       data = << [ed |-> 1, pre |-> 1, post |-> 2,
                  gap |-> Fin(98), intraday |-> Fin(-194)] >>

PercentagesOfAlignedBarsReached ==
  /\ ScenarioRun
  /\ Len(data) = 1
  /\ "table" \in Kinds(ui)

(* C5: the same-direction percentage is 100 times the fraction, among the   *)
(* observations whose gap (postOpen - preClose) / preClose * 100 is not     *)
(* zero, of those whose gap and intraday move have the same sign; every     *)
(* such observation counts in the denominator; 0 when there is none.        *)
(* (the sign of the intraday move read either way: of the move itself, or  *)
(* of the move as tabulated)                                                *)
TrueGapSign(r) == Sgn(BarOn(r.post).Open - BarOn(r.pre).Close)

TrueIntradaySign(r) == Sgn(BarOn(r.post).Close - BarOn(r.post).Open)

IsFraction(p, part, whole) ==
  IF whole = <<>> THEN p.num = 0
  ELSE p.num * Len(whole) = 100 * Len(part) * p.den

SameDirectionOfTrueGaps ==
  (pc = "display" /\ \A j \in 1 .. Len(hist) : hist[j].Open > 0 /\ hist[j].Close > 0) =>
    LET moved == Select(data, LAMBDA r : TrueGapSign(r) # 0)
        same  == Select(moved, LAMBDA r : TrueGapSign(r) = TrueIntradaySign(r))
        shown == Select(moved, LAMBDA r : TrueGapSign(r) = Sgn(r.intraday.v))
    IN  /\ 0 <= same_direction_pct.num
        /\ same_direction_pct.num <= 100 * same_direction_pct.den
        /\ \/ IsFraction(same_direction_pct, same, moved)
           \/ IsFraction(same_direction_pct, shown, moved)

(* C6: one message per cause, in a fixed order, and no results with it:     *)
(* no earnings (or none with EPS) before any history fetch; no history      *)
(* before any alignment; nothing aligned before any aggregate or result.    *)
Errors == { ui[j].text : j \in { n \in 1 .. Len(ui) : ui[n].kind = "error" } }

ShortCircuits ==
  /\ Count(ui, "error") <= 1
  /\ Errors # {} => Kinds(ui) \cap ResultKinds = {}
  /\ Errors \cap {"No earnings data available", "No past earnings with reported EPS"} # {} =>
       /\ pc = "done"
       /\ earnings = <<>>
       /\ calls = <<"earnings_dates">>
  /\ "No historical price data available" \in Errors =>
       /\ pc = "done"
       /\ earnings # <<>>
       /\ hist = <<>>
       /\ calls = <<"earnings_dates", "history">>
       /\ i = 0
  /\ "No sufficient data to analyze post-earnings drift" \in Errors =>
       /\ pc = "done"
       /\ hist # <<>>
       /\ Processed = Len(earnings)
       /\ \A j \in 1 .. Len(earnings) : ~Straddled(earnings[j])
       /\ correlation = Undefined
  /\ pc = "done" =>
       \/ Errors # {}
       \/ /\ ResultKinds \subseteq Kinds(ui)
          /\ \E j \in 1 .. Len(earnings) : Straddled(earnings[j])
  /\ (pc = "done" /\ "history" \in Range(calls) /\ hist = <<>>) =>
       Errors = {"No historical price data available"}
  /\ (pc = "done" /\ hist # <<>> /\ \A j \in 1 .. Len(earnings) : ~Straddled(earnings[j])) =>
       Errors = {"No sufficient data to analyze post-earnings drift"}

(* each cause, in turn: here every event was skipped by the aligner *)
ShortCircuitsReached ==
  /\ pc = "done"
  /\ Errors = {"No sufficient data to analyze post-earnings drift"}
  /\ Len(earnings) >= 2
  /\ Len(hist) >= 2

(* C7: with an empty ticker the run is rejected before any fetch.           *)
EmptyTickerFetchesNothing == ticker_input = "" => calls = <<>>

(* C8: with fewer than 2 observations, or no variance in the gaps or in the *)
(* intraday moves, the correlation is not-a-number and the results are      *)
(* rendered all the same.                                                   *)
Constant(s) == \A j, n \in 1 .. Len(s) : s[j] = s[n]

Degenerate ==
  \/ Len(data) < 2
  \/ Constant([j \in 1 .. Len(data) |-> data[j].gap])
  \/ Constant([j \in 1 .. Len(data) |-> data[j].intraday])

TextOf(kind) == { ui[j].text : j \in { n \in 1 .. Len(ui) : ui[n].kind = kind } }

PositiveOnlyAboveZero ==
  "interpretation" \in Kinds(ui) =>
    /\ TextOf("interpretation") = {"Positive correlation detected"} <=>
         (correlation.k = "fin" /\ correlation.cov > 0)
    /\ ~(correlation.k = "fin" /\ correlation.cov > 0) =>
         TextOf("interpretation") = {"No positive correlation found"}
    /\ "strategy" \in Kinds(ui) =>
         /\ TextOf("strategy") = {"buy the positive gap"} <=>
              /\ correlation.k = "fin"
              /\ correlation.cov > 0
              /\ same_direction_pct.num > 50 * same_direction_pct.den
         /\ ~("buy the positive gap" \in TextOf("strategy") /\
              "No positive correlation found" \in TextOf("interpretation"))

(* a correlation of exactly 0: defined, covariance 0 *)
PositiveOnlyAboveZeroReached ==
  /\ pc = "done"
  /\ correlation.k = "fin"
  /\ correlation.cov = 0
  /\ TextOf("interpretation") = {"No positive correlation found"}

(* C10: an exception in the body of one event only skips that event; one    *)
(* anywhere else is reported once, with its message, and ends the run       *)
(* with no table; none leaves the handler.                                  *)
LoopFaults == { f \in faulted : f[1] = "loop" }

Kept == Select([j \in 1 .. Processed |-> [e |-> earnings[j], j |-> j]],
               LAMBDA x : Straddled(x.e) /\ <<"loop", x.j>> \notin faulted)

ExceptionsContained ==
  /\ pc # "escaped"
  /\ Count(ui, "error") <= 1
  /\ \A f \in LoopFaults : f[2] <= Processed
  /\ faulted \subseteq LoopFaults => Errors \cap Messages = {}
  /\ pc \in {"loop", "aggregate", "display", "done"} =>
       EarningsDatesOf(data) = [j \in 1 .. Len(Kept) |-> Date(Kept[j].e.t)]
  /\ faulted # LoopFaults =>
       /\ pc = "done"
       /\ Errors \subseteq Messages
       /\ Count(ui, "error") = 1
       /\ ui[Len(ui)].kind = "error"
       /\ "table" \notin Kinds(ui)

(* the second of three events raised, the others were kept and the results  *)
(* were rendered                                                            *)
ExceptionsContainedReached ==
  /\ pc = "done"
  /\ faulted = {<<"loop", 2>>}
  /\ Len(earnings) = 3
  /\ Len(data) = 2
  /\ \A j \in 1 .. 3 : Straddled(earnings[j])
  /\ "table" \in Kinds(ui)

(* an exception outside the loop: while the results were being rendered *)
ExceptionsContainedAborted ==
  /\ pc = "done"
  /\ faulted = {<<"display", 0>>}
  /\ "strategy" \in Kinds(ui)
  /\ "table" \notin Kinds(ui)
  /\ Errors = Messages

====
